---- MODULE Spec2Model ----
(***************************************************************************)
(* Versioned, access-controlled content store of chariotek-studio:         *)
(* ContentService / VersionManager / AuditLogger / RBAC / Sanitizer.       *)
(* One document path, its _versions sub-collection and the audit_logs      *)
(* collection, with concurrent calls of the public operations.  Every      *)
(* `await` of the source is a step boundary; the Firestore transaction is  *)
(* one atomic step (the store's guarantee).                                *)
(***************************************************************************)
EXTENDS Integers, Sequences, FiniteSets, TLC

\* ------------------------------------------------------------------ bounds
\* callers whose operations may overlap
NumProcs == 2
\* operations started in a behaviour of one caller
MaxOps == 4
\* operations started in a behaviour of overlapping callers
MaxConcurrentOps == 2
\* store requests that may be rejected in one behaviour
MaxFaults == 1
\* notices the admin-user form shows in one behaviour
MaxAdminActions == 2

Procs == 1..NumProcs

\* ------------------------------------------------------------ program constants
MAX_VERSIONS_TO_KEEP == 50

Undefined == "undefined"
\* options.expectedVersion / rolledBackFrom left undefined
NoVersion == -1

\* -------------------------------------------------------------------- RBAC
UserRole == {"super_admin", "admin", "editor"}

Permission ==
  {"content:read", "content:create", "content:update", "content:delete",
   "content:publish", "content:rollback",
   "admin:read", "admin:create", "admin:update", "admin:delete",
   "audit:read", "version:read", "version:restore"}

RolePermissions ==
  [r \in UserRole |->
     CASE r = "super_admin" -> Permission
       [] r = "admin" ->
            {"content:read", "content:create", "content:update",
             "content:delete", "content:publish", "content:rollback",
             "admin:read", "audit:read", "version:read", "version:restore"}
       [] r = "editor" ->
            {"content:read", "content:create", "content:update",
             "version:read"}]

\* property names the RolePermissions object literal inherits from
\* Object.prototype: RolePermissions[name] is then neither an array nor
\* undefined
ObjectPrototypeKeys == {"constructor", "toString", "__proto__"}

\* RolePermissions[role]?.includes(permission) throws a TypeError when the
\* looked-up value is not undefined and has no includes method
hasPermissionThrows(role) ==
  role \notin DOMAIN RolePermissions /\ role \in ObjectPrototypeKeys

\* the value hasPermission returns when it returns
hasPermission(role, permission) ==
  IF role \in DOMAIN RolePermissions
    THEN permission \in RolePermissions[role]
    ELSE FALSE

RoleHierarchy ==
  [r \in UserRole |->
     CASE r = "editor" -> 1 [] r = "admin" -> 2 [] r = "super_admin" -> 3]

\* a variant of canManageRole that compares the hierarchy levels
canManageRoleByHierarchy(managerRole, targetRole) ==
  /\ managerRole \in UserRole /\ targetRole \in UserRole
  /\ RoleHierarchy[managerRole] >= RoleHierarchy[targetRole]

canManageRole(managerRole, targetRole) ==
  IF managerRole = "super_admin" THEN TRUE
  ELSE IF managerRole = "admin" THEN targetRole = "editor"
  ELSE FALSE

\* a variant of isRoleAtLeast that asks for a strictly higher level
isRoleAtLeastStrictly(role, requiredRole) ==
  /\ role \in UserRole /\ requiredRole \in UserRole
  /\ RoleHierarchy[role] > RoleHierarchy[requiredRole]

\* RoleHierarchy[role] >= RoleHierarchy[requiredRole]; a role the table
\* does not have gives undefined, and a comparison with undefined is false
isRoleAtLeast(role, requiredRole) ==
  /\ role \in UserRole /\ requiredRole \in UserRole
  /\ RoleHierarchy[role] >= RoleHierarchy[requiredRole]

\* roles and permissions the query functions are called with: those of the
\* table, and names the table does not have
RoleInputs == UserRole \cup {"viewer", "undefined", "constructor"}

PermissionInputs == Permission \cup {"content:archive"}

\* the actors the identity collaborator can supply
SuperAdmin    == [id |-> "u1", role |-> "super_admin", isActive |-> TRUE]
Admin         == [id |-> "u2", role |-> "admin",       isActive |-> TRUE]
Editor        == [id |-> "u3", role |-> "editor",      isActive |-> TRUE]
InactiveAdmin == [id |-> "u4", role |-> "admin",       isActive |-> FALSE]

\* useAdminRole() has no user yet
NoUser == [id |-> Undefined, role |-> Undefined, isActive |-> FALSE]

checkPermission(user, permission) ==
  IF ~user.isActive THEN FALSE ELSE hasPermission(user.role, permission)

isValidRole(role) == role \in UserRole

\* an AccessDecision
Decision(allowed, reason) == [allowed |-> allowed, reason |-> reason]

\* a variant of makeAccessDecision that validates the role before it looks
\* at isActive
makeAccessDecisionRoleFirst(user, requiredPermission) ==
  IF user = NoUser THEN Decision(FALSE, "User not authenticated")
  ELSE IF ~isValidRole(user.role) THEN Decision(FALSE, "Invalid user role")
  ELSE IF ~user.isActive THEN Decision(FALSE, "User account is deactivated")
  ELSE IF ~hasPermission(user.role, requiredPermission)
    THEN Decision(FALSE, "Missing required permission")
  ELSE Decision(TRUE, Undefined)

makeAccessDecision(user, requiredPermission) ==
  IF user = NoUser THEN Decision(FALSE, "User not authenticated")
  ELSE IF ~user.isActive THEN Decision(FALSE, "User account is deactivated")
  ELSE IF ~isValidRole(user.role) THEN Decision(FALSE, "Invalid user role")
  ELSE IF ~hasPermission(user.role, requiredPermission)
    THEN Decision(FALSE, "Missing required permission")
  ELSE Decision(TRUE, Undefined)

\* the users makeAccessDecision is called with: none, and users of every
\* role name, active or not
UserInputs ==
  {NoUser} \cup { [id |-> "u", role |-> r, isActive |-> a] :
                    r \in RoleInputs, a \in BOOLEAN }

\* ----------------------------------------------------------------- content
\* A string is a sequence of lexemes: "a", "b" are plain words, "java" and
\* "script:" are the two halves of the pattern /javascript:/.
TitleA       == <<"a">>
TitleEmpty   == <<>>
TitleScriptB == <<"java", "script:", "b">>
TitleNested  == <<"java", "java", "script:", "script:">>

\* a JSON value: null, {} or {title, _deleted?}
Null     == [isNull |-> TRUE,  hasTitle |-> FALSE, title |-> <<>>, deleted |-> FALSE]
EmptyObj == [isNull |-> FALSE, hasTitle |-> FALSE, title |-> <<>>, deleted |-> FALSE]
Obj(t)   == [isNull |-> FALSE, hasTitle |-> TRUE,  title |-> t,    deleted |-> FALSE]

\* { ...content, _deleted: true }
WithDeleted(c) == [c EXCEPT !.isNull = FALSE, !.deleted = TRUE]

\* JavaScript truthiness of a content value (objects are truthy, null is not)
Truthy(c) == ~c.isNull

\* previousContent || {}
OrEmpty(c) == IF Truthy(c) THEN c ELSE EmptyObj

\* JSON.stringify of a content object, as a lexeme sequence
Stringify(c) ==
  <<"{">> \o (IF c.hasTitle THEN c.title ELSE <<>>)
          \o (IF c.deleted THEN <<"_deleted">> ELSE <<>>) \o <<"}">>

\* --------------------------------------------------------------- sanitizer
\* index (1-based) of the first match of /javascript:/ in s at or after
\* 0-based offset from; 0 when there is none
FirstMatch(s, from) ==
  LET hits == { i \in 1..(Len(s) - 1) :
                  i > from /\ s[i] = "java" /\ s[i + 1] = "script:" }
  IN IF hits = {} THEN 0 ELSE CHOOSE i \in hits : \A j \in hits : i <= j

\* pattern.test(input) of a /g pattern whose lastIndex is li:
\* the result and the lastIndex it leaves behind
RegexTest(s, li) ==
  LET m == IF li > Len(s) THEN 0 ELSE FirstMatch(s, li)
  IN IF m = 0 THEN [found |-> FALSE, lastIndex |-> 0]
              ELSE [found |-> TRUE,  lastIndex |-> m + 1]

containsDangerousContent(input, li) == RegexTest(input, li)

\* input.replace(/javascript:/gi, ''): one left-to-right pass over the
\* non-overlapping matches
RECURSIVE removeDangerousContent(_)
removeDangerousContent(s) ==
  IF Len(s) = 0 THEN <<>>
  ELSE IF Len(s) >= 2 /\ s[1] = "java" /\ s[2] = "script:"
    THEN removeDangerousContent(SubSeq(s, 3, Len(s)))
    ELSE <<s[1]>> \o removeDangerousContent(Tail(s))

sanitizeText(input) == removeDangerousContent(input)

sanitizeObject(c) ==
  IF c.hasTitle THEN [c EXCEPT !.title = sanitizeText(c.title)] ELSE c

\* HeroContentSchema: title is z.string().min(1)
validateContentForType(c) == c.hasTitle /\ Len(c.title) >= 1

\* ------------------------------------------------------------------- state
VARIABLES
  liveDoc,      \* the VersionedDocument at the document path (or absent)
  versions,     \* the _versions sub-collection, in insertion order
  auditLogs,    \* the audit_logs collection, in insertion order
  lastIndex,    \* lastIndex of the /javascript:/gi entry of DANGEROUS_PATTERNS
  pruning,      \* cleanupOldVersions() calls fired and not yet settled
  proc,         \* per caller: position in its operation and the locals
  opsStarted,   \* operations started so far
  faults,       \* store requests rejected so far
  topVersion,   \* highest _meta.version ever committed at the path
  mix,          \* the request mix the callers of this behaviour draw from
  call,         \* the call of an RBAC query function under way, and its result
  adminUsers,   \* the adminUsers collection: document of each admin id
  writes,       \* the client's write pipeline, in the order the writes were issued
  adminLogs,    \* the admin_* entries of audit_logs, in insertion order
  toasts,       \* the notices shown by the admin-user form, in order
  handler       \* the handler of the admin-user form under way

adminVars == <<adminUsers, writes, adminLogs, toasts, handler>>

vars == <<liveDoc, versions, auditLogs, lastIndex, pruning, proc, opsStarted,
          faults, topVersion, mix, call, adminVars>>

\* The request mixes.  A behaviour draws the arguments of all its calls from
\* one mix, which also says how many callers share the service and how many
\* operations they start; together the mixes cover the actors, contents and
\* options, one caller after another and callers that overlap.
RequestMix(callers, ops, users, titles, expected, publish, skipSanitization, targets, maxFaults) ==
  [callers |-> callers, ops |-> ops,
   users |-> users, titles |-> titles, expected |-> expected,
   publish |-> publish, skipSanitization |-> skipSanitization,
   targets |-> targets, maxFaults |-> maxFaults]

RequestMixes ==
  { \* life cycle of a document: save, delete, re-create, roll back
    RequestMix(1, MaxOps, {SuperAdmin}, {TitleA, TitleScriptB}, {NoVersion},
               {FALSE}, {FALSE}, {1, 2}, 0),
    \* optimistic locking, schema validation
    RequestMix(1, MaxOps, {SuperAdmin}, {TitleA, TitleEmpty},
               {NoVersion, 0, 1}, {FALSE}, {FALSE}, {1}, 0),
    \* rejected store requests
    RequestMix(1, MaxOps, {SuperAdmin}, {TitleA}, {NoVersion},
               {FALSE}, {FALSE}, {1}, MaxFaults),
    \* actors of different roles, publishing
    RequestMix(1, MaxOps, {Admin, Editor}, {TitleA}, {NoVersion},
               {FALSE, TRUE}, {FALSE}, {1}, 0),
    \* callers that are refused
    RequestMix(NumProcs, MaxOps, {InactiveAdmin, NoUser}, {TitleA},
               {NoVersion}, {FALSE, TRUE}, {FALSE}, {1}, 0),
    \* contents the validator and the sanitizer act on
    RequestMix(1, MaxOps, {SuperAdmin}, {TitleScriptB, TitleNested},
               {NoVersion}, {FALSE}, {FALSE, TRUE}, {1}, 0),
    \* overlapping operations of several callers
    RequestMix(NumProcs, MaxConcurrentOps, {SuperAdmin},
               {TitleA, TitleScriptB}, {NoVersion, 0}, {FALSE}, {FALSE},
               {1}, 0),
    \* overlapping operations and rejected store requests
    RequestMix(NumProcs, MaxConcurrentOps, {SuperAdmin}, {TitleA},
               {NoVersion}, {FALSE}, {FALSE}, {1}, MaxFaults) }

NoDoc ==
  [exists |-> FALSE, content |-> Null, version |-> 0, status |-> Undefined,
   createdBy |-> Undefined, updatedBy |-> Undefined, publishedBy |-> Undefined]

NoSnapshot ==
  [version |-> NoVersion, contentSnapshot |-> Null, createdBy |-> Undefined,
   isRollback |-> FALSE, rolledBackFrom |-> NoVersion]

NoLog ==
  [action |-> Undefined, userId |-> Undefined, previousValue |-> Null,
   newValue |-> Null, success |-> FALSE, fromVersion |-> NoVersion,
   toVersion |-> NoVersion]

\* OperationResult as seen by the caller; kind "thrown" is a rejected promise
NoResult ==
  [kind |-> "none", success |-> FALSE, errorCode |-> Undefined,
   error |-> Undefined, version |-> NoVersion, restoredVersion |-> NoVersion]

Success(version, restoredVersion) ==
  [kind |-> "returned", success |-> TRUE, errorCode |-> Undefined,
   error |-> Undefined, version |-> version, restoredVersion |-> restoredVersion]

Failure(error, errorCode) ==
  [kind |-> "returned", success |-> FALSE, errorCode |-> errorCode,
   error |-> error, version |-> NoVersion, restoredVersion |-> NoVersion]

\* the result of the useContentService wrappers without service or user
NotReady ==
  [kind |-> "returned", success |-> FALSE, errorCode |-> "NOT_READY",
   error |-> "not-ready", version |-> NoVersion, restoredVersion |-> NoVersion]

Thrown(error, errorCode) ==
  [kind |-> "thrown", success |-> FALSE, errorCode |-> errorCode,
   error |-> error, version |-> NoVersion, restoredVersion |-> NoVersion]

\* no RBAC query function has been called
NoCall ==
  [fn |-> "none", a |-> Undefined, b |-> Undefined, pc |-> "idle",
   kind |-> "none", value |-> FALSE, reason |-> Undefined]

\* error.code of a FirebaseError raised by a rejected store request
StoreErrorCode == "unavailable"

Idle ==
  [pc |-> "idle", op |-> "none", user |-> NoUser, content |-> Null,
   expectedVersion |-> NoVersion, publish |-> FALSE, hardDelete |-> FALSE,
   skipValidation |-> FALSE, skipSanitization |-> FALSE,
   targetVersion |-> NoVersion, previousContent |-> Null,
   targetVersionDoc |-> NoSnapshot,
   newVersion |-> NoVersion, txPreviousContent |-> Null,
   txPreviousVersion |-> NoVersion,
   pendingLog |-> NoLog, pendingResult |-> NoResult, inCatch |-> FALSE,
   result |-> NoResult,
   \* observers of the running operation
   txRuns |-> 0, nAudit |-> 0, auditRejected |-> FALSE,
   wrote |-> FALSE, sideFault |-> FALSE,
   \* _meta.updatedBy of the document the transaction replaced
   txPreviousUpdatedBy |-> Undefined]

\* ------------------------------------------------------------- admin users
\* the ids of the adminUsers collection: one admin the form lists, one id
\* that is free for a new admin
ListedAdmin == "t1"
NewAdmin == "t2"
AdminIds == {ListedAdmin, NewAdmin}

NoAdmin == [exists |-> FALSE, role |-> Undefined, isActive |-> FALSE]
AdminDoc(role, isActive) == [exists |-> TRUE, role |-> role, isActive |-> isActive]

HandlerIdle == [pc |-> "idle", name |-> "none", write |-> 0, auditWrite |-> 0, notice |-> "none"]

Init ==
  /\ liveDoc = NoDoc
  /\ versions = <<>>
  /\ auditLogs = <<>>
  /\ lastIndex = 0
  /\ pruning = 0
  /\ proc = [p \in Procs |-> Idle]
  /\ opsStarted = 0
  /\ faults = 0
  /\ topVersion = 0
  /\ mix \in RequestMixes
  /\ call = NoCall
  /\ adminUsers = [id \in AdminIds |-> IF id = ListedAdmin THEN AdminDoc("editor", TRUE) ELSE NoAdmin]
  /\ writes = <<>>
  /\ adminLogs = <<>>
  /\ toasts = <<>>
  /\ handler = HandlerIdle

\* a store request either resolves or is rejected
Resolves(ok) ==
  IF ok THEN faults' = faults
        ELSE faults < mix.maxFaults /\ faults' = faults + 1

\* the operation of pr completes with result res; its locals are dropped
Finish(pr, res) ==
  [Idle EXCEPT !.pc = "done", !.op = pr.op,
               !.expectedVersion = pr.expectedVersion,
               !.hardDelete = pr.hardDelete,
               !.targetVersion = pr.targetVersion,
               !.newVersion = pr.newVersion,
               !.txPreviousVersion = pr.txPreviousVersion,
               !.txPreviousContent = pr.txPreviousContent,
               !.result = res,
               !.txRuns = pr.txRuns, !.nAudit = pr.nAudit,
               !.auditRejected = pr.auditRejected,
               !.wrote = pr.wrote, !.sideFault = pr.sideFault]

\* a new call takes the first caller slot that is not in an operation
CanStart(p) ==
  /\ p <= mix.callers
  /\ proc[p].pc \in {"idle", "done"}
  /\ \A q \in Procs : q < p => proc[q].pc \notin {"idle", "done"}
  /\ opsStarted < mix.ops

\* ----------------------------------------------------------- audit logger
MAX_VALUE_SIZE == 10000

\* length of the preview a truncated value keeps
PREVIEW_SIZE == 500

\* values handed to AuditLogger.log: undefined, or the object named tag
\* whose JSON has size characters
UndefinedValue == [kind |-> "undefined"]

ObjectValue(tag, size) == [kind |-> "object", tag |-> tag, size |-> size]

\* serialized lengths around the preview size and the cap
ValueSizes ==
  {2, PREVIEW_SIZE, PREVIEW_SIZE + 1, MAX_VALUE_SIZE - 1, MAX_VALUE_SIZE,
   MAX_VALUE_SIZE + 1, 2 * MAX_VALUE_SIZE}

ValueInputs(tag) ==
  {UndefinedValue} \cup { ObjectValue(tag, n) : n \in ValueSizes }

\* the smaller of two numbers
Min(m, n) == IF m <= n THEN m ELSE n

\* the truncated indicator: its keys, and of which object its preview
\* holds how many leading characters before the "..."
TruncatedIndicator(value) ==
  [kind |-> "indicator",
   keys |-> {"_truncated", "_originalSize", "_preview"},
   truncated |-> TRUE, originalSize |-> value.size,
   previewOf |-> value.tag,
   previewChars |-> Min(PREVIEW_SIZE, value.size),
   previewSuffix |-> "..."]

truncateValue(value) ==
  IF value = UndefinedValue THEN UndefinedValue
  ELSE IF value.size <= MAX_VALUE_SIZE THEN value
  ELSE TruncatedIndicator(value)

ContentUpdateLog(userId, previousValue, newValue, success) ==
  [action |-> "content_update", userId |-> userId,
   previousValue |-> previousValue, newValue |-> newValue,
   success |-> success, fromVersion |-> NoVersion, toVersion |-> NoVersion]

ContentDeleteLog(userId, previousValue, success) ==
  [action |-> "content_delete", userId |-> userId,
   previousValue |-> previousValue, newValue |-> Null,
   success |-> success, fromVersion |-> NoVersion, toVersion |-> NoVersion]

ContentRollbackLog(userId, previousValue, newValue, fromVersion, toVersion, success) ==
  [action |-> "content_rollback", userId |-> userId,
   previousValue |-> previousValue, newValue |-> newValue,
   success |-> success, fromVersion |-> fromVersion, toVersion |-> toVersion]

\* a variant of AuditLoggerLog without the try/catch around addDoc
AuditLoggerLogRethrows(logs, entry, ok) ==
  IF ok THEN [logs |-> Append(logs, entry), threw |-> FALSE]
        ELSE [logs |-> logs, threw |-> TRUE]

\* AuditLogger.log: addDoc inside try/catch; a rejected write is swallowed
AuditLoggerLog(logs, entry, ok) ==
  IF ok THEN [logs |-> Append(logs, entry), threw |-> FALSE]
        ELSE [logs |-> logs, threw |-> FALSE]

\* --------------------------------------------------------- version manager
CurrentVersion(doc) == IF doc.exists THEN doc.version ELSE 0

VersionConflict(expectedVersion, currentVersion) ==
  expectedVersion # NoVersion /\ currentVersion # expectedVersion

NextVersion(currentVersion) == currentVersion + 1

\* a variant of SaveNewDoc that marks every saved document as published
SaveNewDocAlwaysPublished(cur, content, newVersion, userId, publish) ==
  [exists |-> TRUE, content |-> content, version |-> newVersion,
   status |-> "published",
   createdBy |-> IF cur.exists THEN cur.createdBy ELSE userId,
   updatedBy |-> userId,
   publishedBy |-> userId]

\* newDoc of VersionManager.saveContent
SaveNewDoc(cur, content, newVersion, userId, publish) ==
  [exists |-> TRUE, content |-> content, version |-> newVersion,
   status |-> IF publish THEN "published"
              ELSE IF cur.exists THEN cur.status ELSE "draft",
   createdBy |-> IF cur.exists THEN cur.createdBy ELSE userId,
   updatedBy |-> userId,
   publishedBy |-> IF publish THEN userId
                   ELSE IF cur.exists THEN cur.publishedBy ELSE Undefined]

\* a variant of RollbackNewDoc that writes a fresh _meta
RollbackNewDocFreshMeta(cur, targetVersionDoc, newVersion, userId) ==
  [cur EXCEPT !.content = targetVersionDoc.contentSnapshot,
              !.version = newVersion, !.updatedBy = userId,
              !.createdBy = userId, !.status = "draft",
              !.publishedBy = Undefined]

\* a variant of RollbackNewDoc that bumps the version and keeps the
\* current content
RollbackNewDocKeepsContent(cur, targetVersionDoc, newVersion, userId) ==
  [cur EXCEPT !.version = newVersion, !.updatedBy = userId]

\* newDoc of VersionManager.rollbackToVersion
RollbackNewDoc(cur, targetVersionDoc, newVersion, userId) ==
  [cur EXCEPT !.content = targetVersionDoc.contentSnapshot,
              !.version = newVersion, !.updatedBy = userId]

\* versionDoc of createVersionSnapshot
VersionSnapshot(content, version, userId, isRollback, rolledBackFrom) ==
  [version |-> version, contentSnapshot |-> content, createdBy |-> userId,
   isRollback |-> isRollback, rolledBackFrom |-> rolledBackFrom]

\* getVersion: the snapshots a where('version','==',v).limit(1) query may return
GetVersion(vs, v) == { i \in 1..Len(vs) : vs[i].version = v }

\* ContentService.saveContent after `await versionManager.saveContent`:
\* a success is logged and returned, a failure is returned as it is
SaveAfterVm(pr, vmResult) ==
  IF vmResult.success
    THEN [pr EXCEPT !.pc = "audit",
                    !.pendingLog = ContentUpdateLog(pr.user.id,
                        OrEmpty(pr.previousContent), pr.content, TRUE),
                    !.pendingResult = vmResult]
    ELSE Finish(pr, vmResult)

\* ContentService.deleteContent after `await versionManager.saveContent`:
\* the result is not looked at, the deletion is logged as a success
DeleteAfterVm(pr, vmResult) ==
  [pr EXCEPT !.pc = "audit",
             !.pendingLog = ContentDeleteLog(pr.user.id, pr.previousContent, TRUE),
             !.pendingResult = Success(NoVersion, NoVersion)]

\* VersionManager.saveContent returns vmResult to the operation that called it
AfterVmSave(pr, vmResult) ==
  IF pr.op = "save" THEN SaveAfterVm(pr, vmResult)
                    ELSE DeleteAfterVm(pr, vmResult)

\* a variant of VmSaveCatch that runs the transaction again after a failed
\* post-commit write
VmSaveCatchRetries(pr, error, errorCode) ==
  IF pr.txRuns > 0 /\ pr.txRuns < 2
    THEN [pr EXCEPT !.pc = "vm_tx"]
    ELSE AfterVmSave(pr, Failure(error, errorCode))

\* catch block of VersionManager.saveContent
VmSaveCatch(pr, error, errorCode) ==
  AfterVmSave(pr, Failure(error, errorCode))

\* catch block of VersionManager.rollbackToVersion
VmRollbackCatch(pr, error, errorCode) ==
  Finish(pr, Failure(error, errorCode))

\* ---------------------------------------------------------- content service
\* useContentService().saveContent -> ContentService.saveContent, up to the
\* first await (getContent)
SaveContent(p, user, title, expectedVersion, publish, skipValidation, skipSanitization) ==
  /\ CanStart(p)
  /\ opsStarted' = opsStarted + 1
  /\ LET pr == [Idle EXCEPT !.op = "save", !.user = user,
                            !.content = Obj(title),
                            !.expectedVersion = expectedVersion,
                            !.publish = publish,
                            !.skipValidation = skipValidation,
                            !.skipSanitization = skipSanitization]
     IN proc' = [proc EXCEPT ![p] =
          IF user = NoUser
            THEN Finish(pr, NotReady)
          ELSE IF ~checkPermission(user, "content:update")
            THEN Finish(pr, Thrown("insufficient-permissions", Undefined))
          ELSE IF publish /\ ~checkPermission(user, "content:publish")
            THEN Finish(pr, Thrown("insufficient-permissions", Undefined))
          ELSE [pr EXCEPT !.pc = "save_getContent"]]
  /\ UNCHANGED <<liveDoc, versions, auditLogs, lastIndex, pruning, faults, topVersion, mix, call, adminVars>>

\* ContentService.saveContent from the resolution of getContent to the call
\* of versionManager.saveContent: validate, sanitize, re-check
SaveGetContent(p) ==
  /\ proc[p].pc = "save_getContent"
  /\ \E ok \in BOOLEAN :
       /\ Resolves(ok)
       /\ LET pr == proc[p]
              previousContent == IF liveDoc.exists THEN liveDoc.content ELSE Null
              valid == pr.skipValidation \/ validateContentForType(pr.content)
              sanitized == IF pr.skipSanitization THEN pr.content
                           ELSE sanitizeObject(pr.content)
              \* String.replace with a /g pattern leaves its lastIndex at 0
              li == IF pr.content.hasTitle THEN 0 ELSE lastIndex
              test == containsDangerousContent(Stringify(sanitized), li)
          IN IF ~ok
               THEN /\ proc' = [proc EXCEPT ![p] =
                                  Finish(pr, Thrown("store", StoreErrorCode))]
                    /\ lastIndex' = lastIndex
             ELSE IF ~valid
               THEN /\ proc' = [proc EXCEPT ![p] =
                          Finish(pr, Failure("validation-failed", "VALIDATION_ERROR"))]
                    /\ lastIndex' = lastIndex
             ELSE IF pr.skipSanitization
               THEN /\ proc' = [proc EXCEPT ![p] =
                          [pr EXCEPT !.pc = "vm_tx",
                                     !.previousContent = previousContent]]
                    /\ lastIndex' = lastIndex
             ELSE IF test.found
               THEN /\ proc' = [proc EXCEPT ![p] =
                          Finish(pr, Failure("dangerous-content", "DANGEROUS_CONTENT"))]
                    /\ lastIndex' = test.lastIndex
             ELSE /\ proc' = [proc EXCEPT ![p] =
                        [pr EXCEPT !.pc = "vm_tx", !.content = sanitized,
                                   !.previousContent = previousContent]]
                  /\ lastIndex' = test.lastIndex
  /\ UNCHANGED <<liveDoc, versions, auditLogs, pruning, opsStarted, topVersion, mix, call, adminVars>>

\* VersionManager.saveContent: runTransaction (read, optimistic-lock check,
\* set) as one atomic step, up to the next await
TxSave(p) ==
  /\ proc[p].pc = "vm_tx"
  /\ \E ok \in BOOLEAN :
       /\ Resolves(ok)
       /\ LET pr == proc[p]
              currentVersion == CurrentVersion(liveDoc)
              newVersion == NextVersion(currentVersion)
              committed == [pr EXCEPT
                  !.newVersion = newVersion,
                  !.txPreviousContent = IF liveDoc.exists THEN liveDoc.content ELSE Null,
                  !.txPreviousVersion = currentVersion,
                  !.txPreviousUpdatedBy = liveDoc.updatedBy,
                  !.txRuns = @ + 1, !.wrote = TRUE]
          IN IF ~ok
               THEN /\ proc' = [proc EXCEPT ![p] =
                                  VmSaveCatch(pr, "store", StoreErrorCode)]
                    /\ UNCHANGED <<liveDoc, pruning, topVersion>>
             ELSE IF VersionConflict(pr.expectedVersion, currentVersion)
               THEN /\ proc' = [proc EXCEPT ![p] =
                                  VmSaveCatch(pr, "version-conflict", Undefined)]
                    /\ UNCHANGED <<liveDoc, pruning, topVersion>>
             ELSE /\ liveDoc' = SaveNewDoc(liveDoc, pr.content, newVersion,
                                           pr.user.id, pr.publish)
                  /\ topVersion' = IF newVersion > topVersion THEN newVersion
                                   ELSE topVersion
                  /\ IF Truthy(committed.txPreviousContent)
                       THEN /\ proc' = [proc EXCEPT ![p] =
                                  [committed EXCEPT !.pc = "vm_snapshot"]]
                            /\ pruning' = pruning
                       ELSE /\ proc' = [proc EXCEPT ![p] =
                                  AfterVmSave(committed, Success(newVersion, NoVersion))]
                            /\ pruning' = pruning + 1
  /\ UNCHANGED <<versions, auditLogs, lastIndex, opsStarted, mix, call, adminVars>>

\* VersionManager.saveContent: createVersionSnapshot of the pre-image, then
\* the fire-and-forget cleanupOldVersions and the return
VmSnapshot(p) ==
  /\ proc[p].pc = "vm_snapshot"
  /\ \E ok \in BOOLEAN :
       /\ Resolves(ok)
       /\ LET pr == proc[p]
          IN IF ok
               THEN /\ versions' = Append(versions,
                          VersionSnapshot(pr.txPreviousContent, pr.txPreviousVersion,
                                          pr.user.id, FALSE, NoVersion))
                    /\ pruning' = pruning + 1
                    /\ proc' = [proc EXCEPT ![p] =
                          AfterVmSave(pr, Success(pr.newVersion, NoVersion))]
               ELSE /\ UNCHANGED <<versions, pruning>>
                    /\ proc' = [proc EXCEPT ![p] =
                          VmSaveCatch([pr EXCEPT !.sideFault = TRUE],
                                      "store", StoreErrorCode)]
  /\ UNCHANGED <<liveDoc, auditLogs, lastIndex, opsStarted, topVersion, mix, call, adminVars>>

\* the snapshots cleanupOldVersions selects for removal
ToDelete(vs) ==
  IF Len(vs) <= MAX_VERSIONS_TO_KEEP THEN {}
  ELSE { i \in 1..Len(vs) :
           Cardinality({ j \in 1..Len(vs) : vs[j].version > vs[i].version })
             >= MAX_VERSIONS_TO_KEEP }

\* a variant of cleanupOldVersions that deletes: it keeps the newest
\* snapshot only
CleanupOldVersionsDeletes ==
  /\ pruning > 0
  /\ \E ok \in BOOLEAN :
       /\ Resolves(ok)
       /\ pruning' = pruning - 1
       /\ versions' = IF ok /\ Len(versions) > 1
                        THEN SubSeq(versions, Len(versions), Len(versions))
                        ELSE versions
  /\ UNCHANGED <<liveDoc, auditLogs, lastIndex, proc, opsStarted, topVersion, mix, call, adminVars>>

\* VersionManager.cleanupOldVersions: the deleteDoc call is commented out,
\* the selected snapshots are only logged
CleanupOldVersions ==
  /\ pruning > 0
  /\ \E ok \in BOOLEAN :
       /\ Resolves(ok)
       /\ pruning' = pruning - 1
       /\ versions' = IF ok /\ ToDelete(versions) # {} THEN versions ELSE versions
  /\ UNCHANGED <<liveDoc, auditLogs, lastIndex, proc, opsStarted, topVersion, mix, call, adminVars>>

\* useContentService().deleteContent -> ContentService.deleteContent, up to
\* the first await (getContent)
DeleteContent(p, user, hardDelete) ==
  /\ CanStart(p)
  /\ opsStarted' = opsStarted + 1
  /\ LET pr == [Idle EXCEPT !.op = "delete", !.user = user,
                            !.hardDelete = hardDelete]
     IN proc' = [proc EXCEPT ![p] =
          IF user = NoUser
            THEN Finish(pr, NotReady)
          ELSE IF ~checkPermission(user, "content:delete")
            THEN Finish(pr, Thrown("insufficient-permissions", Undefined))
          ELSE [pr EXCEPT !.pc = "del_getContent"]]
  /\ UNCHANGED <<liveDoc, versions, auditLogs, lastIndex, pruning, faults, topVersion, mix, call, adminVars>>

\* catch block of ContentService.deleteContent: log the failed deletion
DeleteCatch(pr, error, errorCode) ==
  [pr EXCEPT !.pc = "audit", !.inCatch = TRUE,
             !.pendingLog = ContentDeleteLog(pr.user.id, EmptyObj, FALSE),
             !.pendingResult = Failure(error, errorCode)]

\* a variant of DelGetContent that removes the document before it checks
\* the admin:delete permission
DelGetContentDeletesFirst(p) ==
  /\ proc[p].pc = "del_getContent"
  /\ faults' = faults
  /\ LET pr == proc[p]
     IN IF ~liveDoc.exists
          THEN /\ proc' = [proc EXCEPT ![p] =
                             Finish(pr, Failure("not-found", "NOT_FOUND"))]
               /\ liveDoc' = liveDoc
        ELSE IF pr.hardDelete
          THEN /\ liveDoc' = NoDoc
               /\ proc' = [proc EXCEPT ![p] =
                    IF ~checkPermission(pr.user, "admin:delete")
                      THEN DeleteCatch([pr EXCEPT !.wrote = TRUE],
                                       "insufficient-permissions", Undefined)
                      ELSE [pr EXCEPT !.pc = "audit", !.wrote = TRUE,
                               !.pendingLog = ContentDeleteLog(pr.user.id,
                                                  liveDoc.content, TRUE),
                               !.pendingResult = Success(NoVersion, NoVersion)]]
        ELSE /\ proc' = [proc EXCEPT ![p] =
                   [pr EXCEPT !.pc = "vm_tx",
                              !.content = WithDeleted(liveDoc.content),
                              !.previousContent = liveDoc.content]]
             /\ liveDoc' = liveDoc
  /\ UNCHANGED <<versions, auditLogs, lastIndex, pruning, opsStarted, topVersion, mix, call, adminVars>>

\* ContentService.deleteContent from the resolution of getContent to the
\* next await (deleteDoc, versionManager.saveContent or the failure log)
DelGetContent(p) ==
  /\ proc[p].pc = "del_getContent"
  /\ \E ok \in BOOLEAN :
       /\ Resolves(ok)
       /\ LET pr == proc[p]
          IN proc' = [proc EXCEPT ![p] =
               IF ~ok THEN DeleteCatch(pr, "store", StoreErrorCode)
               ELSE IF ~liveDoc.exists
                 THEN Finish(pr, Failure("not-found", "NOT_FOUND"))
               ELSE IF pr.hardDelete
                 THEN IF ~checkPermission(pr.user, "admin:delete")
                        THEN DeleteCatch(pr, "insufficient-permissions", Undefined)
                        ELSE [pr EXCEPT !.pc = "del_deleteDoc",
                                        !.previousContent = liveDoc.content]
               ELSE [pr EXCEPT !.pc = "vm_tx",
                               !.content = WithDeleted(liveDoc.content),
                               !.previousContent = liveDoc.content]]
  /\ UNCHANGED <<liveDoc, versions, auditLogs, lastIndex, pruning, opsStarted, topVersion, mix, call, adminVars>>

\* a variant of DelDeleteDoc that removes the version history together with
\* the live document
DelDeleteDocDropsHistory(p) ==
  /\ proc[p].pc = "del_deleteDoc"
  /\ \E ok \in BOOLEAN :
       /\ Resolves(ok)
       /\ LET pr == proc[p]
          IN IF ok
               THEN /\ liveDoc' = NoDoc
                    /\ versions' = <<>>
                    /\ proc' = [proc EXCEPT ![p] =
                          [pr EXCEPT !.pc = "audit", !.wrote = TRUE,
                                     !.pendingLog = ContentDeleteLog(pr.user.id,
                                                        pr.previousContent, TRUE),
                                     !.pendingResult = Success(NoVersion, NoVersion)]]
               ELSE /\ UNCHANGED <<liveDoc, versions>>
                    /\ proc' = [proc EXCEPT ![p] =
                          DeleteCatch(pr, "store", StoreErrorCode)]
  /\ UNCHANGED <<auditLogs, lastIndex, pruning, opsStarted, topVersion, mix, call, adminVars>>

\* ContentService.deleteContent: deleteDoc of the live document
DelDeleteDoc(p) ==
  /\ proc[p].pc = "del_deleteDoc"
  /\ \E ok \in BOOLEAN :
       /\ Resolves(ok)
       /\ LET pr == proc[p]
          IN IF ok
               THEN /\ liveDoc' = NoDoc
                    /\ proc' = [proc EXCEPT ![p] =
                          [pr EXCEPT !.pc = "audit", !.wrote = TRUE,
                                     !.pendingLog = ContentDeleteLog(pr.user.id,
                                                        pr.previousContent, TRUE),
                                     !.pendingResult = Success(NoVersion, NoVersion)]]
               ELSE /\ liveDoc' = liveDoc
                    /\ proc' = [proc EXCEPT ![p] =
                          DeleteCatch(pr, "store", StoreErrorCode)]
  /\ UNCHANGED <<versions, auditLogs, lastIndex, pruning, opsStarted, topVersion, mix, call, adminVars>>

\* useContentService().rollbackToVersion -> ContentService.rollbackContent ->
\* VersionManager.rollbackToVersion, up to the first await (getVersion)
RollbackContent(p, user, targetVersion) ==
  /\ CanStart(p)
  /\ opsStarted' = opsStarted + 1
  /\ LET pr == [Idle EXCEPT !.op = "rollback", !.user = user,
                            !.targetVersion = targetVersion]
     IN proc' = [proc EXCEPT ![p] =
          IF user = NoUser
            THEN Finish(pr, NotReady)
          ELSE IF ~checkPermission(user, "content:rollback")
            THEN Finish(pr, Thrown("insufficient-permissions", Undefined))
          ELSE [pr EXCEPT !.pc = "rb_getVersion"]]
  /\ UNCHANGED <<liveDoc, versions, auditLogs, lastIndex, pruning, faults, topVersion, mix, call, adminVars>>

\* VersionManager.rollbackToVersion: the getVersion query resolves
RbGetVersion(p) ==
  /\ proc[p].pc = "rb_getVersion"
  /\ LET pr == proc[p]
         hits == GetVersion(versions, pr.targetVersion)
     IN \/ /\ Resolves(FALSE)
           /\ proc' = [proc EXCEPT ![p] =
                         VmRollbackCatch(pr, "store", StoreErrorCode)]
        \/ /\ Resolves(TRUE)
           /\ hits = {}
           /\ proc' = [proc EXCEPT ![p] =
                Finish(pr, Failure("version-not-found", "VERSION_NOT_FOUND"))]
        \/ /\ Resolves(TRUE)
           /\ \E i \in hits :
                proc' = [proc EXCEPT ![p] =
                  [pr EXCEPT !.pc = "rb_tx", !.targetVersionDoc = versions[i]]]
  /\ UNCHANGED <<liveDoc, versions, auditLogs, lastIndex, pruning, opsStarted, topVersion, mix, call, adminVars>>

\* VersionManager.rollbackToVersion: runTransaction as one atomic step
TxRollback(p) ==
  /\ proc[p].pc = "rb_tx"
  /\ \E ok \in BOOLEAN :
       /\ Resolves(ok)
       /\ LET pr == proc[p]
              currentVersion == liveDoc.version
              newVersion == NextVersion(currentVersion)
          IN IF ~ok
               THEN /\ proc' = [proc EXCEPT ![p] =
                          VmRollbackCatch(pr, "store", StoreErrorCode)]
                    /\ UNCHANGED <<liveDoc, topVersion>>
             ELSE IF ~liveDoc.exists
               THEN /\ proc' = [proc EXCEPT ![p] =
                          VmRollbackCatch(pr, "document-does-not-exist", Undefined)]
                    /\ UNCHANGED <<liveDoc, topVersion>>
             ELSE /\ liveDoc' = RollbackNewDoc(liveDoc, pr.targetVersionDoc,
                                               newVersion, pr.user.id)
                  /\ topVersion' = IF newVersion > topVersion THEN newVersion
                                   ELSE topVersion
                  /\ proc' = [proc EXCEPT ![p] =
                        [pr EXCEPT !.pc = "rb_snapshot",
                                   !.newVersion = newVersion,
                                   !.txPreviousContent = liveDoc.content,
                                   !.txPreviousVersion = currentVersion,
                                   !.txPreviousUpdatedBy = liveDoc.updatedBy,
                                   !.txRuns = @ + 1, !.wrote = TRUE]]
  /\ UNCHANGED <<versions, auditLogs, lastIndex, pruning, opsStarted, mix, call, adminVars>>

\* VersionManager.rollbackToVersion: createVersionSnapshot of the
\* pre-rollback state, then the call of logContentRollback
RbSnapshot(p) ==
  /\ proc[p].pc = "rb_snapshot"
  /\ \E ok \in BOOLEAN :
       /\ Resolves(ok)
       /\ LET pr == proc[p]
          IN IF ok
               THEN /\ versions' = Append(versions,
                          VersionSnapshot(pr.txPreviousContent, pr.txPreviousVersion,
                                          pr.user.id, TRUE, pr.targetVersion))
                    /\ proc' = [proc EXCEPT ![p] =
                          [pr EXCEPT !.pc = "audit",
                             !.pendingLog = ContentRollbackLog(pr.user.id,
                                 pr.txPreviousContent,
                                 pr.targetVersionDoc.contentSnapshot,
                                 pr.txPreviousVersion, pr.targetVersion, TRUE),
                             !.pendingResult = Success(pr.newVersion, pr.targetVersion)]]
               ELSE /\ versions' = versions
                    /\ proc' = [proc EXCEPT ![p] =
                          VmRollbackCatch([pr EXCEPT !.sideFault = TRUE],
                                          "store", StoreErrorCode)]
  /\ UNCHANGED <<liveDoc, auditLogs, lastIndex, pruning, opsStarted, topVersion, mix, call, adminVars>>

\* the awaited AuditLogger.log call resolves and the operation returns; a
\* throw of log would reach the catch block of the calling operation
Audit(p) ==
  /\ proc[p].pc = "audit"
  /\ \E ok \in BOOLEAN :
       /\ Resolves(ok)
       /\ LET pr == proc[p]
              r == AuditLoggerLog(auditLogs, pr.pendingLog, ok)
              pr1 == [pr EXCEPT !.nAudit = IF ok THEN @ + 1 ELSE @,
                                !.auditRejected = @ \/ ~ok,
                                !.sideFault = @ \/ ~ok]
          IN /\ auditLogs' = r.logs
             /\ proc' = [proc EXCEPT ![p] =
                  IF ~r.threw THEN Finish(pr1, pr1.pendingResult)
                  ELSE IF pr1.inCatch
                    THEN Finish(pr1, Thrown("store", StoreErrorCode))
                  ELSE IF pr1.op = "rollback"
                    THEN VmRollbackCatch(pr1, "store", StoreErrorCode)
                  ELSE IF pr1.op = "delete"
                    THEN DeleteCatch(pr1, "store", StoreErrorCode)
                  ELSE [pr1 EXCEPT !.inCatch = TRUE,
                           !.pendingLog = ContentUpdateLog(pr1.user.id,
                               OrEmpty(pr1.previousContent), pr1.content, FALSE),
                           !.pendingResult = Failure("store", StoreErrorCode)]]
  /\ UNCHANGED <<liveDoc, versions, lastIndex, pruning, opsStarted, topVersion, mix, call, adminVars>>

Next ==
  \/ \E p \in Procs, user \in mix.users, title \in mix.titles,
        expectedVersion \in mix.expected, publish \in mix.publish,
        skipSanitization \in mix.skipSanitization :
       SaveContent(p, user, title, expectedVersion, publish, FALSE,
                   skipSanitization)
  \/ \E p \in Procs : SaveGetContent(p)
  \/ \E p \in Procs : TxSave(p)
  \/ \E p \in Procs : VmSnapshot(p)
  \/ CleanupOldVersions
  \/ \E p \in Procs, user \in mix.users, hardDelete \in BOOLEAN :
       DeleteContent(p, user, hardDelete)
  \/ \E p \in Procs : DelGetContent(p)
  \/ \E p \in Procs : DelDeleteDoc(p)
  \/ \E p \in Procs, user \in mix.users, targetVersion \in mix.targets :
       RollbackContent(p, user, targetVersion)
  \/ \E p \in Procs : RbGetVersion(p)
  \/ \E p \in Procs : TxRollback(p)
  \/ \E p \in Procs : RbSnapshot(p)
  \/ \E p \in Procs : Audit(p)

Spec == Init /\ [][Next]_vars

\* ------------------------------------------------- the RBAC query functions
\* the state of the content store, which the query functions do not touch
storeVars ==
  <<liveDoc, versions, auditLogs, lastIndex, pruning, proc, opsStarted,
    faults, topVersion, mix>>

CallHasPermission(role, permission) ==
  /\ call.pc \in {"idle", "returned"}
  /\ call' = [NoCall EXCEPT !.fn = "hasPermission", !.a = role,
                            !.b = permission, !.pc = "called"]
  /\ UNCHANGED <<storeVars, adminVars>>

ReturnHasPermission ==
  /\ call.pc = "called" /\ call.fn = "hasPermission"
  /\ call' = IF hasPermissionThrows(call.a)
               THEN [call EXCEPT !.pc = "returned", !.kind = "thrown"]
               ELSE [call EXCEPT !.pc = "returned", !.kind = "returned",
                                 !.value = hasPermission(call.a, call.b)]
  /\ UNCHANGED <<storeVars, adminVars>>

CallCanManageRole(managerRole, targetRole) ==
  /\ call.pc \in {"idle", "returned"}
  /\ call' = [NoCall EXCEPT !.fn = "canManageRole", !.a = managerRole,
                            !.b = targetRole, !.pc = "called"]
  /\ UNCHANGED <<storeVars, adminVars>>

ReturnCanManageRole ==
  /\ call.pc = "called" /\ call.fn = "canManageRole"
  /\ call' = [call EXCEPT !.pc = "returned", !.kind = "returned",
                          !.value = canManageRole(call.a, call.b)]
  /\ UNCHANGED <<storeVars, adminVars>>

CallMakeAccessDecision(user, requiredPermission) ==
  /\ call.pc \in {"idle", "returned"}
  /\ call' = [NoCall EXCEPT !.fn = "makeAccessDecision", !.a = user,
                            !.b = requiredPermission, !.pc = "called"]
  /\ UNCHANGED <<storeVars, adminVars>>

ReturnMakeAccessDecision ==
  /\ call.pc = "called" /\ call.fn = "makeAccessDecision"
  /\ LET d == makeAccessDecision(call.a, call.b)
     IN call' = [call EXCEPT !.pc = "returned", !.kind = "returned",
                             !.value = d.allowed, !.reason = d.reason]
  /\ UNCHANGED <<storeVars, adminVars>>

CallIsRoleAtLeast(role, requiredRole) ==
  /\ call.pc \in {"idle", "returned"}
  /\ call' = [NoCall EXCEPT !.fn = "isRoleAtLeast", !.a = role,
                            !.b = requiredRole, !.pc = "called"]
  /\ UNCHANGED <<storeVars, adminVars>>

ReturnIsRoleAtLeast ==
  /\ call.pc = "called" /\ call.fn = "isRoleAtLeast"
  /\ call' = [call EXCEPT !.pc = "returned", !.kind = "returned",
                          !.value = isRoleAtLeast(call.a, call.b)]
  /\ UNCHANGED <<storeVars, adminVars>>

RbacNext ==
  \/ \E role \in RoleInputs, requiredRole \in RoleInputs :
       CallIsRoleAtLeast(role, requiredRole)
  \/ ReturnIsRoleAtLeast
  \/ \E role \in RoleInputs, permission \in PermissionInputs :
       CallHasPermission(role, permission)
  \/ ReturnHasPermission
  \/ \E managerRole \in RoleInputs, targetRole \in RoleInputs :
       CallCanManageRole(managerRole, targetRole)
  \/ ReturnCanManageRole
  \/ \E user \in UserInputs, requiredPermission \in PermissionInputs :
       CallMakeAccessDecision(user, requiredPermission)
  \/ ReturnMakeAccessDecision

RbacSpec == Init /\ [][RbacNext]_vars

\* ------------------------------------------- AuditLogger.log and its values
CallLog(previousValue, newValue) ==
  /\ call.pc \in {"idle", "returned"}
  /\ call' = [NoCall EXCEPT !.fn = "log", !.a = previousValue,
                            !.b = newValue, !.pc = "called"]
  /\ UNCHANGED <<storeVars, adminVars>>

\* the auditLog record that log hands to addDoc
ReturnLog ==
  /\ call.pc = "called" /\ call.fn = "log"
  /\ call' = [call EXCEPT !.pc = "returned", !.kind = "returned",
                          !.value = [previousValue |-> truncateValue(call.a),
                                     newValue |-> truncateValue(call.b)]]
  /\ UNCHANGED <<storeVars, adminVars>>

AuditNext ==
  \/ \E previousValue \in ValueInputs("previous"), newValue \in ValueInputs("new") :
       CallLog(previousValue, newValue)
  \/ ReturnLog

AuditSpec == Init /\ [][AuditNext]_vars

\* ------------------------------- cleanupOldVersions on a long history
\* the version numbers of a path's snapshot collection: count snapshots
\* from version first on
SnapshotVersions(first, count) == first .. (first + count - 1)

SnapshotCounts == {0, 1, MAX_VERSIONS_TO_KEEP - 1, MAX_VERSIONS_TO_KEEP, MAX_VERSIONS_TO_KEEP + 1, MAX_VERSIONS_TO_KEEP + 2, MAX_VERSIONS_TO_KEEP + 10, MAX_VERSIONS_TO_KEEP + 11, 2 * MAX_VERSIONS_TO_KEEP}

FirstVersions == {1, 7}

\* the n highest version numbers of vs
Newest(vs, n) == { v \in vs : Cardinality({ w \in vs : w > v }) < n }

\* query(versionsCol, orderBy('version', 'desc'), limit(MAX_VERSIONS_TO_KEEP + 10))
CleanupQuery(vs) == Newest(vs, MAX_VERSIONS_TO_KEEP + 10)

\* snapshot.docs.slice(MAX_VERSIONS_TO_KEEP) of the query's result
CleanupToDelete(vs) ==
  IF Cardinality(CleanupQuery(vs)) <= MAX_VERSIONS_TO_KEEP THEN {}
  ELSE CleanupQuery(vs) \ Newest(vs, MAX_VERSIONS_TO_KEEP)

\* the collection cleanupOldVersions leaves: the deleteDoc call is
\* commented out, the selected snapshots are only logged
cleanupOldVersions(vs) == vs

CallCleanupOldVersions(first, count) ==
  /\ call.pc \in {"idle", "returned"}
  /\ call' = [NoCall EXCEPT !.fn = "cleanupOldVersions",
                            !.a = SnapshotVersions(first, count),
                            !.pc = "called"]
  /\ UNCHANGED <<storeVars, adminVars>>

\* getDocs resolves and the loop runs, or getDocs rejects and the caller's
\* .catch(console.error) swallows the rejection
ReturnCleanupOldVersions ==
  /\ call.pc = "called" /\ call.fn = "cleanupOldVersions"
  /\ \E ok \in BOOLEAN :
       call' = [call EXCEPT !.pc = "returned",
                            !.kind = IF ok THEN "returned" ELSE "rejected",
                            !.b = IF ok THEN CleanupToDelete(call.a) ELSE {},
                            !.value = IF ok THEN cleanupOldVersions(call.a)
                                      ELSE call.a]
  /\ UNCHANGED <<storeVars, adminVars>>

RetentionNext ==
  \/ \E first \in FirstVersions, count \in SnapshotCounts :
       CallCleanupOldVersions(first, count)
  \/ ReturnCleanupOldVersions

RetentionSpec == Init /\ [][RetentionNext]_vars

\* ------------------------------------ containsDangerousContent, call by call
\* the strings containsDangerousContent is called with
StringInputs ==
  { TitleA, TitleEmpty, TitleScriptB, TitleNested,
    <<"a", "java", "script:">>,
    <<"java", "script:", "a", "java", "script:">>,
    Stringify(Obj(TitleScriptB)), Stringify(Obj(TitleA)) }

CallContainsDangerousContent(input) ==
  /\ call.pc \in {"idle", "returned"}
  /\ call' = [NoCall EXCEPT !.fn = "containsDangerousContent",
                            !.a = input, !.pc = "called"]
  /\ UNCHANGED <<storeVars, adminVars>>

\* DANGEROUS_PATTERNS.some(pattern => pattern.test(input)): the patterns are
\* module-level /gi objects, test starts at the lastIndex the call before
\* left and leaves its own
ReturnContainsDangerousContent ==
  /\ call.pc = "called" /\ call.fn = "containsDangerousContent"
  /\ LET test == containsDangerousContent(call.a, lastIndex)
     IN /\ call' = [call EXCEPT !.pc = "returned", !.kind = "returned",
                                !.value = test.found]
        /\ lastIndex' = test.lastIndex
  /\ UNCHANGED <<liveDoc, versions, auditLogs, pruning, proc, opsStarted, faults, topVersion, mix, adminVars>>

SanitizerNext ==
  \/ \E input \in StringInputs : CallContainsDangerousContent(input)
  \/ ReturnContainsDangerousContent

SanitizerSpec == Init /\ [][SanitizerNext]_vars

\* --------------------------------------------- AdminUsersConfigForm handlers
\* useAdminRole().isSuperAdmin
isSuperAdmin(current) == current # NoUser /\ current.role = "super_admin" /\ current.isActive

\* the admins the form is used by
CurrentAdmins == {SuperAdmin, Admin, NoUser}

\* the data of a setDoc: a whole AdminUser (options {}) or the fields of a
\* merge
WholeDoc(role) == [merge |-> FALSE, hasRole |-> TRUE, role |-> role, hasIsActive |-> TRUE, isActive |-> TRUE]
RolePatch(role) == [merge |-> TRUE, hasRole |-> TRUE, role |-> role, hasIsActive |-> FALSE, isActive |-> FALSE]
ActivePatch(isActive) == [merge |-> TRUE, hasRole |-> FALSE, role |-> Undefined, hasIsActive |-> TRUE, isActive |-> isActive]

\* the document setDoc(ref, data, options) leaves
SetDoc(docu, data) ==
  [exists |-> TRUE,
   role |-> IF data.hasRole THEN data.role
            ELSE IF docu.exists THEN docu.role ELSE Undefined,
   isActive |-> IF data.hasIsActive THEN data.isActive
                ELSE docu.exists /\ docu.isActive]

\* the admin_* audit entry logAdminManagement hands to AuditLogger.log;
\* write is the place in the pipeline of the AdminUser write it reports
AdminLog(action, current, target, success, write) ==
  [action |-> action, userId |-> current.id, resourceId |-> target,
   success |-> success, write |-> write]

\* a handler from `try` to its second await: setDocumentNonBlocking starts
\* setDoc and returns undefined, so the handler goes straight on to
\* logAdminManagement(..., true) and waits for that addDoc
StartWrites(name, action, current, target, data, notice) ==
  /\ writes' = writes \o
       << [kind |-> "adminUser", target |-> target, data |-> data,
           entry |-> AdminLog("none", current, target, FALSE, 0),
           status |-> "pending"],
          [kind |-> "audit", target |-> target, data |-> data,
           entry |-> AdminLog(action, current, target, TRUE, Len(writes) + 1),
           status |-> "pending"] >>
  /\ handler' = [pc |-> "logAdminManagement", name |-> name,
                 write |-> Len(writes) + 1, auditWrite |-> Len(writes) + 2,
                 notice |-> notice]
  /\ UNCHANGED <<adminUsers, adminLogs, toasts>>

\* a handler that ends with the 'Permission Denied' notice
Denied ==
  /\ toasts' = Append(toasts, "Permission Denied")
  /\ UNCHANGED <<adminUsers, writes, adminLogs, handler>>

CanHandle(current) ==
  /\ handler.pc = "idle"
  /\ Len(toasts) < MaxAdminActions
  /\ current # NoUser

handleAddAdmin(current, role) ==
  /\ CanHandle(current)
  /\ IF role = "super_admin" /\ ~isSuperAdmin(current)
       THEN Denied
       ELSE StartWrites("handleAddAdmin", "admin_create", current, NewAdmin,
                        WholeDoc(role), "Admin Added")
  /\ UNCHANGED <<storeVars, call>>

handleRoleChange(current, admin, newRole) ==
  /\ CanHandle(current)
  /\ adminUsers[admin].exists
  /\ IF ~isSuperAdmin(current)
       THEN Denied
       ELSE StartWrites("handleRoleChange", "admin_role_change", current,
                        admin, RolePatch(newRole), "Role Updated")
  /\ UNCHANGED <<storeVars, call>>

handleToggleActive(current, admin) ==
  /\ CanHandle(current)
  /\ adminUsers[admin].exists
  /\ StartWrites("handleToggleActive", "admin_update", current, admin,
                 ActivePatch(~adminUsers[admin].isActive),
                 IF adminUsers[admin].isActive THEN "Admin Deactivated"
                                               ELSE "Admin Activated")
  /\ UNCHANGED <<storeVars, call>>

\* handleDelete with deleteTarget = admin: deactivates instead of deleting
handleDelete(current, admin) ==
  /\ CanHandle(current)
  /\ adminUsers[admin].exists
  /\ StartWrites("handleDelete", "admin_delete", current, admin,
                 ActivePatch(FALSE), "Admin Removed")
  /\ UNCHANGED <<storeVars, call>>

\* the oldest write of the pipeline that the store has not answered
NextWrite ==
  IF \E i \in 1..Len(writes) : writes[i].status = "pending"
    THEN CHOOSE i \in 1..Len(writes) :
           /\ writes[i].status = "pending"
           /\ \A j \in 1..(i - 1) : writes[j].status # "pending"
    ELSE 0

\* the store answers the setDoc of setDocumentNonBlocking: the document is
\* written, or the write is rejected and the .catch emits 'permission-error'
SettleAdminUserWrite ==
  /\ NextWrite # 0 /\ writes[NextWrite].kind = "adminUser"
  /\ \E ok \in BOOLEAN :
       LET i == NextWrite
           w == writes[i]
       IN /\ writes' = [writes EXCEPT ![i].status =
                          IF ok THEN "committed" ELSE "rejected"]
          /\ adminUsers' = IF ok
               THEN [adminUsers EXCEPT ![w.target] = SetDoc(@, w.data)]
               ELSE adminUsers
  /\ UNCHANGED <<adminLogs, toasts, handler>>
  /\ UNCHANGED <<storeVars, call>>

\* the store answers the addDoc of AuditLogger.log (a rejection is
\* swallowed there); the handler then shows its notice and returns
SettleAuditWrite ==
  /\ NextWrite # 0 /\ writes[NextWrite].kind = "audit"
  /\ handler.pc = "logAdminManagement" /\ handler.auditWrite = NextWrite
  /\ \E ok \in BOOLEAN :
       LET i == NextWrite
           w == writes[i]
       IN /\ writes' = [writes EXCEPT ![i].status =
                          IF ok THEN "committed" ELSE "rejected"]
          /\ adminLogs' = IF ok THEN Append(adminLogs, w.entry) ELSE adminLogs
  /\ toasts' = Append(toasts, handler.notice)
  /\ handler' = HandlerIdle
  /\ UNCHANGED adminUsers
  /\ UNCHANGED <<storeVars, call>>

AdminNext ==
  \/ \E current \in CurrentAdmins, role \in UserRole : handleAddAdmin(current, role)
  \/ \E current \in CurrentAdmins, admin \in AdminIds, newRole \in UserRole :
       handleRoleChange(current, admin, newRole)
  \/ \E current \in CurrentAdmins, admin \in AdminIds : handleToggleActive(current, admin)
  \/ \E current \in CurrentAdmins, admin \in AdminIds : handleDelete(current, admin)
  \/ SettleAdminUserWrite
  \/ SettleAuditWrite

AdminSpec == Init /\ [][AdminNext]_vars

Quiescent == \A p \in Procs : proc[p].pc \in {"idle", "done"}

\* =================================================================== claims

\* a step of caller p
Steps(p) == proc'[p] # proc[p]

\* the result the operation of pr returns, or is about to return
Outcome(pr) == IF pr.pc = "done" THEN pr.result ELSE pr.pendingResult

\* C1: every write of the live document sets _meta.version to the version
\* the path had reached + 1: the first write yields 1 and the versions of a
\* path never reset to a lower value or skip a number, whatever saves,
\* soft and hard deletes and rollbacks precede.
C1_VersionsGapless ==
  [][ (liveDoc' # liveDoc /\ liveDoc'.exists)
        => liveDoc'.version = topVersion + 1 ]_vars

\* C2: a saveContent whose expectedVersion differs from the current version
\* (0 when the document is absent) fails with errorCode VERSION_CONFLICT
\* and leaves the live document and the snapshots as they were.
C2_StaleSaveConflict ==
  [][ \A p \in Procs :
        ( /\ proc[p].pc = "vm_tx" /\ proc[p].op = "save" /\ Steps(p)
          /\ faults' = faults
          /\ proc[p].expectedVersion # NoVersion
          /\ proc[p].expectedVersion # (IF liveDoc.exists THEN liveDoc.version ELSE 0) )
        => ( /\ liveDoc' = liveDoc /\ versions' = versions
             /\ proc'[p].pc = "done"
             /\ proc'[p].result.kind = "returned"
             /\ ~proc'[p].result.success
             /\ proc'[p].result.errorCode = "VERSION_CONFLICT" ) ]_vars

\* C3: of two saveContent calls in flight on the path with the same
\* expectedVersion, once one has committed the other writes nothing, is
\* not run again and returns VERSION_CONFLICT to its caller.
C3_ConcurrentSavesOneWins ==
  [][ \A p, q \in Procs :
        ( /\ p # q
          /\ proc[p].op = "save" /\ proc[p].pc = "vm_tx" /\ Steps(p)
          /\ faults' = faults
          /\ proc[q].op = "save" /\ proc[q].pc \in {"vm_snapshot", "audit"}
          /\ proc[q].txRuns = 1
          /\ proc[p].expectedVersion # NoVersion
          /\ proc[q].expectedVersion = proc[p].expectedVersion
          /\ liveDoc.version = proc[q].newVersion )
        => ( /\ liveDoc' = liveDoc
             /\ proc'[p].pc = "done" /\ proc'[p].txRuns = 0
             /\ proc'[p].result.kind = "returned"
             /\ ~proc'[p].result.success
             /\ proc'[p].result.errorCode = "VERSION_CONFLICT" ) ]_vars

\* the snapshots of version k in the _versions collection
SnapshotsOf(k) == { i \in 1..Len(versions) : versions[i].version = k }

\* C4: in every quiescent state, a live document at version N has exactly
\* one snapshot for each of the versions 1..N-1 and none for version N.
C4_SnapshotPerSupersededVersion ==
  (Quiescent /\ liveDoc.exists)
    => /\ \A k \in 1..(liveDoc.version - 1) : Cardinality(SnapshotsOf(k)) = 1
       /\ SnapshotsOf(liveDoc.version) = {}

\* C5: a successful rollback to version v of a document at version c
\* commits version c+1 whose content is that of a snapshot stored for v,
\* returns {version: c+1, restoredVersion: v}, and has then stored a
\* snapshot of version c with the pre-rollback content, isRollback = TRUE
\* and rolledBackFrom = v.
C5_RollbackRestoresSnapshot ==
  [][ \A p \in Procs :
        /\ (proc[p].pc = "rb_tx" /\ proc'[p].pc = "rb_snapshot")
             => /\ liveDoc.exists /\ liveDoc'.exists
                /\ liveDoc'.version = liveDoc.version + 1
                /\ \E i \in 1..Len(versions) :
                     /\ versions[i].version = proc[p].targetVersion
                     /\ versions[i].contentSnapshot = liveDoc'.content
                /\ proc'[p].txPreviousVersion = liveDoc.version
                /\ proc'[p].txPreviousContent = liveDoc.content
        /\ ( /\ proc[p].op = "rollback" /\ proc[p].pc # "done"
             /\ proc'[p].pc = "done" /\ proc'[p].result.success )
             => /\ proc'[p].result.kind = "returned"
                /\ proc'[p].result.version = proc'[p].txPreviousVersion + 1
                /\ proc'[p].result.restoredVersion = proc'[p].targetVersion
                /\ \E i \in 1..Len(versions') :
                     /\ versions'[i].version = proc'[p].txPreviousVersion
                     /\ versions'[i].contentSnapshot = proc'[p].txPreviousContent
                     /\ versions'[i].isRollback
                     /\ versions'[i].rolledBackFrom = proc'[p].targetVersion ]_vars

\* a rollback has returned success and the content it restored differs
\* from the content it replaced
C5_Witness ==
  \E p \in Procs :
    /\ proc[p].pc = "done" /\ proc[p].op = "rollback"
    /\ proc[p].result.success
    /\ liveDoc.exists /\ liveDoc.version = proc[p].result.version
    /\ liveDoc.content # proc[p].txPreviousContent

\* C6: every attempted saveContent, deleteContent or rollbackContent has
\* written exactly one audit entry when it completes, whatever its result,
\* provided the audit store accepted the write.
C6_OneAuditEntryPerAttempt ==
  \A p \in Procs :
    ( /\ proc[p].pc = "done"
      /\ proc[p].result.errorCode # "NOT_READY"
      /\ ~proc[p].auditRejected )
    => proc[p].nAudit = 1

\* the operation of pr ends in a permission denial or a validation error
Refused(pr) ==
  /\ pr.pc \in {"audit", "done"}
  /\ Outcome(pr).error \in {"insufficient-permissions", "validation-failed"}

\* C7: an operation that is refused for a missing permission or an invalid
\* content has changed neither the live document nor the snapshots (every
\* change of either is the step of an operation that records it).
C7_RefusedBeforeMutation ==
  [][ /\ \A p \in Procs : Refused(proc'[p]) => ~proc'[p].wrote
      /\ (liveDoc' # liveDoc \/ versions' # versions)
           => \E p \in Procs :
                /\ Steps(p) /\ proc'[p].wrote
                /\ proc[p].pc \notin {"idle", "done"}
                /\ ~Refused(proc'[p]) ]_vars

\* an admin without admin:delete was refused the hard delete of an
\* existing document, which is still there
C7_Witness ==
  \E p \in Procs :
    /\ proc[p].pc = "done" /\ proc[p].op = "delete" /\ proc[p].hardDelete
    /\ proc[p].result.error = "insufficient-permissions"
    /\ liveDoc.exists

\* C8: a permission denial of saveContent, deleteContent or rollbackContent
\* is returned as {success: false, errorCode: INSUFFICIENT_PERMISSIONS};
\* it is not thrown to the caller of the service or of the hook.
C8_DenialIsReturned ==
  \A p \in Procs :
    (proc[p].pc = "done" /\ proc[p].result.error = "insufficient-permissions")
    => /\ proc[p].result.kind = "returned"
       /\ ~proc[p].result.success
       /\ proc[p].result.errorCode = "INSUFFICIENT_PERMISSIONS"

\* C9: a rejected audit write is not raised to the caller and does not
\* change the result of the operation: the operation returns what it was
\* about to return, a committed saveContent returns success with the new
\* version, and the live document is left as committed.
C9_AuditFailureSwallowed ==
  [][ \A p \in Procs :
        (proc[p].pc = "audit" /\ Steps(p) /\ faults' # faults)
        => /\ liveDoc' = liveDoc
           /\ proc'[p].pc = "done"
           /\ proc'[p].result.kind = "returned"
           /\ proc'[p].result = proc[p].pendingResult
           /\ (proc[p].op = "save" /\ proc[p].txRuns = 1)
                => /\ proc'[p].result.success
                   /\ proc'[p].result.version = proc[p].newVersion ]_vars

\* a saveContent whose audit write was rejected has returned success and
\* the document is at the version it returned
C9_Witness ==
  \E p \in Procs :
    /\ proc[p].pc = "done" /\ proc[p].op = "save" /\ proc[p].auditRejected
    /\ proc[p].result.success
    /\ liveDoc.exists /\ liveDoc.version = proc[p].result.version

C11_SnapshotAttributedToAuthor ==
  [][ \A p \in Procs :
        (Steps(p) /\ Len(versions') = Len(versions) + 1)
          => /\ versions'[Len(versions')].version = proc[p].txPreviousVersion
             /\ versions'[Len(versions')].createdBy
                  = proc[p].txPreviousUpdatedBy ]_vars

Dangerous(c) == FirstMatch(Stringify(c), 0) # 0

\* C13: whatever the options of a saveContent, content whose JSON matches
\* a dangerous pattern is never handed to the version manager and never
\* written to the live document by a save: such a save is rejected with
\* DANGEROUS_CONTENT instead.
C13_DangerousContentNeverSaved ==
  [][ \A p \in Procs :
        /\ ( /\ proc[p].op = "save" /\ proc[p].pc = "save_getContent"
             /\ proc'[p].pc = "vm_tx" )
             => ~Dangerous(proc'[p].content)
        /\ ( /\ proc[p].op = "save" /\ proc[p].pc = "vm_tx"
             /\ liveDoc' # liveDoc )
             => ~Dangerous(liveDoc'.content) ]_vars

\* C14: a rollback whose target version has no snapshot, in particular the
\* live version or a later one, returns VERSION_NOT_FOUND; a rollback whose
\* snapshot exists while the live document does not returns NOT_FOUND; in
\* both cases the live document and the snapshots are left as they were
\* (store requests that are rejected aside).
C14_RollbackNotFoundCodes ==
  [][ \A p \in Procs :
        (proc[p].op = "rollback" /\ Steps(p) /\ faults' = faults) =>
          /\ ( /\ proc[p].pc = "rb_getVersion"
               /\ \/ GetVersion(versions, proc[p].targetVersion) = {}
                  \/ liveDoc.exists /\ proc[p].targetVersion >= liveDoc.version )
               => /\ proc'[p].pc = "done"
                  /\ proc'[p].result.kind = "returned"
                  /\ ~proc'[p].result.success
                  /\ proc'[p].result.errorCode = "VERSION_NOT_FOUND"
                  /\ UNCHANGED <<liveDoc, versions>>
          /\ (proc[p].pc = "rb_tx" /\ ~liveDoc.exists)
               => /\ proc'[p].pc = "done"
                  /\ proc'[p].result.kind = "returned"
                  /\ ~proc'[p].result.success
                  /\ proc'[p].result.errorCode = "NOT_FOUND"
                  /\ UNCHANGED <<liveDoc, versions>> ]_vars

\* the error codes of the taxonomy
ErrorTaxonomy ==
  {"VALIDATION_ERROR", "DANGEROUS_CONTENT", "VERSION_CONFLICT",
   "VERSION_NOT_FOUND", "NOT_FOUND", "INSUFFICIENT_PERMISSIONS", "NOT_READY"}

\* C15: every failed result an operation returns carries an errorCode of
\* the taxonomy; a failure raised inside the store transaction (conflict,
\* network, missing document) is translated, never returned with a
\* store-specific or absent code.
C15_FailuresCarryTaxonomyCode ==
  \A p \in Procs :
    ( /\ proc[p].pc = "done"
      /\ proc[p].result.kind = "returned"
      /\ ~proc[p].result.success )
    => proc[p].result.errorCode \in ErrorTaxonomy

\* the actor may delete permanently
MayHardDelete(user) ==
  /\ user.isActive
  /\ hasPermission(user.role, "content:delete")
  /\ hasPermission(user.role, "admin:delete")

C17_SoftDeleteVersioned ==
  [][ \A p \in Procs :
        (proc[p].op = "delete" /\ ~proc[p].hardDelete) =>
          /\ (proc[p].pc = "vm_tx" /\ liveDoc' # liveDoc)
               => /\ liveDoc.exists /\ liveDoc'.exists
                  /\ liveDoc'.version = liveDoc.version + 1
                  /\ liveDoc'.content = WithDeleted(liveDoc.content)
          /\ ( /\ proc[p].pc # "done" /\ proc'[p].pc = "done"
               /\ proc'[p].result.success )
               => /\ proc'[p].txRuns = 1
                  /\ proc'[p].txPreviousContent = proc[p].previousContent
                  /\ \E i \in 1..Len(versions') :
                       /\ versions'[i].version = proc'[p].txPreviousVersion
                       /\ versions'[i].contentSnapshot = proc[p].previousContent
                       /\ ~versions'[i].isRollback ]_vars

\* the step is the committing transaction of a save with publish = true
\* issued by an active actor that holds content:publish
PublishingSave(p) ==
  /\ Steps(p) /\ proc[p].op = "save" /\ proc[p].pc = "vm_tx"
  /\ proc[p].publish
  /\ proc[p].user.isActive
  /\ hasPermission(proc[p].user.role, "content:publish")
  /\ proc[p].user.role # "editor"

\* C18: the status of the live document becomes published, and publishedBy
\* is written, only by the transaction of a publishing save of an active
\* actor holding content:publish, never by an operation of an editor; any
\* other write keeps the status (draft for a new document) and publishedBy.
C18_PublishedOnlyByPublishingSave ==
  [][ (liveDoc' # liveDoc /\ liveDoc'.exists) =>
        \/ \E p \in Procs :
             /\ PublishingSave(p)
             /\ liveDoc'.status = "published"
             /\ liveDoc'.publishedBy = proc[p].user.id
        \/ /\ \A p \in Procs : ~PublishingSave(p)
           /\ liveDoc'.status =
                IF liveDoc.exists THEN liveDoc.status ELSE "draft"
           /\ liveDoc'.publishedBy =
                IF liveDoc.exists THEN liveDoc.publishedBy ELSE Undefined ]_vars

\* an editor has saved a document an admin had published: it is still
\* published, by the admin
C18_Witness ==
  /\ liveDoc.exists /\ liveDoc.status = "published"
  /\ liveDoc.publishedBy = Admin.id
  /\ liveDoc.updatedBy = Editor.id

\* C19: hasPermission(role, permission) returns whether the permission is
\* in the table entry of the role and returns false for a role the table
\* does not have; it is false for editor and content:delete and true for
\* super_admin and every permission of the enumeration.
C19_HasPermissionIsTableLookup ==
  (call.fn = "hasPermission" /\ call.pc = "returned") =>
    /\ call.kind = "returned"
    /\ call.value = (IF call.a \in UserRole
                       THEN call.b \in RolePermissions[call.a] ELSE FALSE)
    /\ (call.a = "editor" /\ call.b = "content:delete") => ~call.value
    /\ (call.a = "super_admin" /\ call.b \in Permission) => call.value

\* C20: canManageRole(manager, target) is true exactly when the manager is
\* super_admin, or the manager is admin and the target is editor.
C20_CanManageRoleTable ==
  (call.fn = "canManageRole" /\ call.pc = "returned") =>
    /\ call.kind = "returned"
    /\ call.value = ( \/ call.a = "super_admin"
                      \/ call.a = "admin" /\ call.b = "editor" )
    /\ call.a = "editor" => ~call.value
    /\ (call.a = "admin" /\ call.b \in {"admin", "super_admin"}) => ~call.value

\* canManageRole has answered that an admin manages an editor
C20_Witness ==
  /\ call.fn = "canManageRole" /\ call.pc = "returned"
  /\ call.a = "admin" /\ call.b = "editor" /\ call.value

\* C21: makeAccessDecision checks, in this order, that the user is present,
\* is active, has a valid role and holds the permission, and returns the
\* denial reason of the first check that fails; it allows only if all four
\* pass.
C21_AccessDecisionOrder ==
  (call.fn = "makeAccessDecision" /\ call.pc = "returned") =>
    LET present == call.a # NoUser
        active == call.a.isActive
        valid == call.a.role \in UserRole
        granted == valid /\ call.b \in RolePermissions[call.a.role]
    IN /\ call.kind = "returned"
       /\ call.value = (present /\ active /\ valid /\ granted)
       /\ ~present => call.reason = "User not authenticated"
       /\ (present /\ ~active)
            => call.reason = "User account is deactivated"
       /\ (present /\ active /\ ~valid) => call.reason = "Invalid user role"
       /\ (present /\ active /\ valid /\ ~granted)
            => call.reason = "Missing required permission"
       /\ call.value => call.reason = Undefined

\* the decision for an inactive user with an invalid role has returned
C21_Witness ==
  /\ call.fn = "makeAccessDecision" /\ call.pc = "returned"
  /\ call.a # NoUser /\ ~call.a.isActive /\ call.a.role \notin UserRole
  /\ ~call.value /\ call.reason = "User account is deactivated"

\* C22: the transaction of a save on an existing document keeps createdBy
\* and sets updatedBy to the acting user; the transaction of a rollback
\* keeps status, createdBy and publishedBy, sets updatedBy to the acting
\* user and changes nothing else but content and version.
C22_MetaFrame ==
  [][ \A p \in Procs :
        /\ (proc[p].pc = "vm_tx" /\ Steps(p) /\ liveDoc' # liveDoc)
             => /\ liveDoc'.exists
                /\ liveDoc'.updatedBy = proc[p].user.id
                /\ liveDoc.exists => liveDoc'.createdBy = liveDoc.createdBy
                /\ ~liveDoc.exists => liveDoc'.createdBy = proc[p].user.id
        /\ (proc[p].pc = "rb_tx" /\ Steps(p) /\ liveDoc' # liveDoc)
             => /\ liveDoc.exists
                /\ liveDoc' = [liveDoc EXCEPT
                                 !.content = liveDoc'.content,
                                 !.version = liveDoc'.version,
                                 !.updatedBy = proc[p].user.id] ]_vars

\* an admin has rolled back a published document that an editor created
C22_Witness ==
  \E p \in Procs :
    /\ proc[p].pc = "done" /\ proc[p].op = "rollback"
    /\ proc[p].result.success
    /\ liveDoc.exists /\ liveDoc.version = proc[p].result.version
    /\ liveDoc.status = "published"
    /\ liveDoc.createdBy = Editor.id /\ liveDoc.updatedBy = Admin.id

\* what the claim says is stored for value: the value itself up to 10,000
\* serialized characters, above that {truncated, originalSize, preview}
\* with the first 500 characters and "..."
C23_Stored(value, stored) ==
  IF value = UndefinedValue \/ value.size <= 10000
    THEN stored = value
    ELSE /\ stored.kind = "indicator"
         /\ stored.keys = {"truncated", "originalSize", "preview"}
         /\ stored.truncated
         /\ stored.originalSize = value.size
         /\ stored.previewOf = value.tag /\ stored.previewChars = 500
         /\ stored.previewSuffix = "..."

\* C23: AuditLogger.log caps previousValue and newValue independently: a
\* value of more than 10,000 serialized characters is stored as
\* {truncated: true, originalSize, preview: first 500 characters + "..."},
\* a value of at most 10,000 is stored unchanged, and the stored form of
\* one value does not depend on the other.
C23_ValuesCappedIndependently ==
  (call.fn = "log" /\ call.pc = "returned") =>
    /\ C23_Stored(call.a, call.value.previousValue)
    /\ C23_Stored(call.b, call.value.newValue)

\* C24: once the pruning started by a save has completed, the path's
\* snapshot collection holds at most the 50 most recent snapshots: the
\* snapshots with the highest version numbers stay, the others are removed.
C24_RetentionCap ==
  (call.fn = "cleanupOldVersions" /\ call.pc = "returned"
     /\ call.kind = "returned") =>
    /\ Cardinality(call.value) <= 50
    /\ call.value = Newest(call.a, 50)

\* C25: containsDangerousContent is a pure function of its argument: the
\* result for a string is the same after every history of earlier calls,
\* so every call on a string that holds a dangerous pattern returns true
\* and every call on a string that holds none returns false.
C25_ContainsDangerousContentPure ==
  (call.fn = "containsDangerousContent" /\ call.pc = "returned") =>
    (call.value <=> (FirstMatch(call.a, 0) # 0))

\* C26: under every interleaving with other saves and rollbacks of the
\* path, the success audit entry of a saveContent holds as previousValue the
\* content of the live version the save superseded (the pre-image its
\* transaction read, {} when there was none) and as newValue the content
\* it stored.
C26_AuditPreImage ==
  [][ \A p \in Procs :
        ( /\ proc[p].op = "save" /\ proc[p].pc = "audit" /\ Steps(p)
          /\ Len(auditLogs') = Len(auditLogs) + 1
          /\ auditLogs'[Len(auditLogs')].success )
          => /\ auditLogs'[Len(auditLogs')].previousValue
                  = OrEmpty(proc[p].txPreviousContent)
             /\ auditLogs'[Len(auditLogs')].newValue = proc[p].content ]_vars

\* C27: a saveContent that returns success = false has not changed the live
\* document: with no other caller at work, the document's version and
\* content are the ones from before the call.
C27_FailedSaveWroteNothing ==
  \A p \in Procs :
    ( /\ mix.callers = 1
      /\ proc[p].op = "save" /\ proc[p].pc = "done"
      /\ proc[p].result.kind = "returned" /\ ~proc[p].result.success )
      => ~proc[p].wrote

\* C28: a soft deleteContent returns success, and writes a content_delete
\* audit entry with success = true, only if the versioned save of the
\* deletion marker has committed; when that save fails the delete reports
\* failure and its audit entry has success = false.
C28_SoftDeleteSuccessNeedsCommit ==
  [][ \A p \in Procs :
        (proc[p].op = "delete" /\ ~proc[p].hardDelete /\ Steps(p)) =>
          /\ ( /\ proc[p].pc # "done" /\ proc'[p].pc = "done"
               /\ proc'[p].result.kind = "returned"
               /\ proc'[p].result.success )
               => proc'[p].wrote
          /\ ( /\ proc[p].pc = "audit"
               /\ Len(auditLogs') = Len(auditLogs) + 1
               /\ auditLogs'[Len(auditLogs')].action = "content_delete"
               /\ auditLogs'[Len(auditLogs')].success )
               => proc[p].wrote ]_vars

\* the notices that report a successful change of an AdminUser
SuccessNotices ==
  {"Admin Added", "Role Updated", "Admin Activated", "Admin Deactivated", "Admin Removed"}

\* C29: in the admin-user handlers (add admin, role change, activate or
\* deactivate, remove) an admin_* audit entry with success = true is
\* written, and the success notice is shown, only after the AdminUser write
\* of the handler has succeeded; a write the store rejects never yields
\* such an entry.
C29_SuccessAfterWrite ==
  [][ /\ ( /\ Len(adminLogs') = Len(adminLogs) + 1
           /\ adminLogs'[Len(adminLogs')].success )
           => writes[adminLogs'[Len(adminLogs')].write].status = "committed"
      /\ ( /\ Len(toasts') = Len(toasts) + 1
           /\ toasts'[Len(toasts')] \in SuccessNotices )
           => writes[handler.write].status = "committed" ]_vars

\* C30: the permission table agrees with the hierarchy editor(1) < admin(2)
\* < super_admin(3): whenever isRoleAtLeast(a, b) holds for roles a, b,
\* every permission granted to b is granted to a, so that the permissions
\* of editor are among those of admin and these among those of
\* super_admin; and isRoleAtLeast is a total order on the roles: reflexive,
\* antisymmetric, transitive and total.
C30_HierarchyTotalOrder ==
  ( /\ call.fn = "isRoleAtLeast" /\ call.pc = "returned"
    /\ call.a \in UserRole /\ call.b \in UserRole ) =>
    /\ call.value => RolePermissions[call.b] \subseteq RolePermissions[call.a]
    /\ call.value = ( \/ call.a = "super_admin"
                      \/ call.a = "admin" /\ call.b # "super_admin"
                      \/ call.a = "editor" /\ call.b = "editor" )
    /\ (call.a = call.b) => call.value
    /\ (call.value /\ isRoleAtLeast(call.b, call.a)) => call.a = call.b
    /\ \A c \in UserRole :
         (call.value /\ isRoleAtLeast(call.b, c)) => isRoleAtLeast(call.a, c)
    /\ call.value \/ isRoleAtLeast(call.b, call.a)
    /\ RolePermissions["editor"] \subseteq RolePermissions["admin"]
    /\ RolePermissions["admin"] \subseteq RolePermissions["super_admin"]

\* isRoleAtLeast has answered that an admin is at least an editor, and the
\* admin holds a permission the editor lacks
C30_Witness ==
  /\ call.fn = "isRoleAtLeast" /\ call.pc = "returned"
  /\ call.a = "admin" /\ call.b = "editor" /\ call.value
  /\ RolePermissions["editor"] # RolePermissions["admin"]

====
